---- MODULE Spec2Model ----
(***************************************************************************)
(* ReconstructionOcTree (prototype/src/main/jni/reconstruction_octree.cc). *)
(*                                                                         *)
(* The tree is a heap of nodes.  heap[n] is the object with identity n;    *)
(* `new ReconstructionOcTree(...)` appends a node, Root is the node the    *)
(* owner constructed.  children_[i] holds a node identity (NoNode while    *)
(* the malloc'ed slot was never written; is_available_[i] guards it).      *)
(*                                                                         *)
(* The constructor executes `position_ = position_;`: the position         *)
(* argument is dropped and the member keeps what its default construction  *)
(* left in the storage.  Depending on the glm build this is zero or an     *)
(* indeterminate value, so every construction draws position_ from         *)
(* IndeterminatePositions.                                                 *)
(***************************************************************************)
EXTENDS Integers, Sequences, FiniteSets, TLC

VARIABLES heap, rootPosition, inserted, ret, threads, fan

vars == <<heap, rootPosition, inserted, ret, threads, fan>>

(* ------------------------------ inputs -------------------------------- *)

\* Most addPoint calls made on one tree.
MaxPoints == 3

Vec3(a, b, c) == [x |-> a, y |-> b, z |-> c]

\* Depths the owner constructs the root with.
RootDepths == 0 .. 2

\* Edge lengths the owner constructs the root with.
RootRanges == {8}

\* Origins the owner passes to the root's constructor.
RootPositions == {Vec3(0, 0, 0)}

\* Points handed to addPoint / getPoints: three inside the root cube and
\* one outside it.
Points ==
    { Vec3(1, 1, 1), Vec3(7, 7, 7), Vec3(1, 1, 7), Vec3(9, 9, 9) }

\* One point inside each octant of the root cube, in ascending octant order.
OctantPoints ==
    << Vec3(1, 1, 1), Vec3(1, 1, 7), Vec3(1, 7, 1), Vec3(1, 7, 7),
       Vec3(7, 1, 1), Vec3(7, 1, 7), Vec3(7, 7, 1), Vec3(7, 7, 7) >>

\* Locations the routing is probed with: Points, and points whose
\* coordinates lie exactly on a split plane of the root.
Probes == Points \cup { Vec3(4, 4, 4), Vec3(4, 1, 7), Vec3(1, 2, 4) }

\* What a never-assigned position_ can read as: zero (glm initialising its
\* default constructor) or something else left in the storage.
IndeterminatePositions == { Vec3(0, 0, 0), Vec3(8, 8, 8) }

(* ------------------------------- nodes -------------------------------- *)

Root == 1
NoNode == 0
NoReconstructor == [points |-> <<>>, mesh |-> <<>>, allocated |-> FALSE]

\* Reconstructor collaborator (reconstructor.h/.cc, not among the sources):
\* point buffer in, mesh out; the mesh is empty until reconstruct() has run.
MeshOf(points) == points

ReconstructorNew == [points |-> <<>>, mesh |-> <<>>, allocated |-> TRUE]

ReconstructorReconstruct(r) == [r EXCEPT !.mesh = MeshOf(r.points)]

ReconstructorGetMesh(r) == r.mesh

\* The constructor allocating the collaborator one level early as well.
ReconstructionOcTreeEager(position, range, depth, indeterminate) ==
    [ position_     |-> indeterminate,
      range_        |-> range,
      halfRange_    |-> range \div 2,
      depth_        |-> depth,
      children_     |-> [i \in 0 .. 7 |-> NoNode],
      is_available_ |-> [i \in 0 .. 7 |-> FALSE],
      points_       |-> <<>>,
      reconstructor |-> IF depth <= 1 THEN ReconstructorNew ELSE NoReconstructor ]

\* ReconstructionOcTree::ReconstructionOcTree(position, range, depth).
\* `position_ = position_` leaves position_ at `indeterminate`.
ReconstructionOcTree(position, range, depth, indeterminate) ==
    [ position_     |-> indeterminate,
      range_        |-> range,
      halfRange_    |-> range \div 2,
      depth_        |-> depth,
      children_     |-> [i \in 0 .. 7 |-> NoNode],
      is_available_ |-> [i \in 0 .. 7 |-> FALSE],
      points_       |-> <<>>,
      reconstructor |-> IF depth = 0 THEN ReconstructorNew ELSE NoReconstructor ]

\* getChildIndex with the y and z results exchanged.
getChildIndexSwapped(node, point) ==
    IF point.x < node.position_.x + node.halfRange_
    THEN IF point.y < node.position_.y + node.halfRange_
         THEN IF point.z < node.position_.z + node.halfRange_ THEN 0 ELSE 2
         ELSE IF point.z < node.position_.z + node.halfRange_ THEN 1 ELSE 3
    ELSE IF point.y < node.position_.y + node.halfRange_
         THEN IF point.z < node.position_.z + node.halfRange_ THEN 4 ELSE 6
         ELSE IF point.z < node.position_.z + node.halfRange_ THEN 5 ELSE 7

\* ReconstructionOcTree::getChildIndex
getChildIndex(node, point) ==
    IF point.x < node.position_.x + node.halfRange_
    THEN IF point.y < node.position_.y + node.halfRange_
         THEN IF point.z < node.position_.z + node.halfRange_ THEN 0 ELSE 1
         ELSE IF point.z < node.position_.z + node.halfRange_ THEN 2 ELSE 3
    ELSE IF point.y < node.position_.y + node.halfRange_
         THEN IF point.z < node.position_.z + node.halfRange_ THEN 4 ELSE 5
         ELSE IF point.z < node.position_.z + node.halfRange_ THEN 6 ELSE 7

\* The local childPosition that initChild computes from location.
childPosition(node, location) ==
    [ x |-> IF location.x > node.position_.x + node.halfRange_
            THEN node.position_.x + node.halfRange_ ELSE node.position_.x,
      y |-> IF location.y > node.position_.y + node.halfRange_
            THEN node.position_.y + node.halfRange_ ELSE node.position_.y,
      z |-> IF location.z > node.position_.z + node.halfRange_
            THEN node.position_.z + node.halfRange_ ELSE node.position_.z ]

\* initChild that forgets `is_available_[index] = true`.
initChildNoFlag(h, n, location, index, indeterminate) ==
    LET child == ReconstructionOcTree(childPosition(h[n], location),
                                      h[n].halfRange_, h[n].depth_ - 1,
                                      indeterminate[h[n].depth_ - 1])
    IN  Append([h EXCEPT ![n].children_[index] = Len(h) + 1], child)

\* ReconstructionOcTree::initChild on node n of heap h; the new child takes
\* the next identity.  indeterminate[d] is what position_ of a node
\* constructed with depth d reads as.
initChild(h, n, location, index, indeterminate) ==
    LET child == ReconstructionOcTree(childPosition(h[n], location),
                                      h[n].halfRange_, h[n].depth_ - 1,
                                      indeterminate[h[n].depth_ - 1])
    IN  Append([h EXCEPT ![n].children_[index] = Len(h) + 1,
                         ![n].is_available_[index] = TRUE],
               child)

\* addPoint without the is_available_ test: the child is created anew on
\* every call.
RECURSIVE addPointAlwaysInit(_, _, _, _)
addPointAlwaysInit(h, n, point, indeterminate) ==
    IF h[n].depth_ = 0
    THEN [h EXCEPT ![n].points_ = Append(@, point)]
    ELSE LET index == getChildIndex(h[n], point)
             h1 == initChild(h, n, point, index, indeterminate)
         IN  addPointAlwaysInit(h1, h1[n].children_[index], point, indeterminate)

\* addPoint that refuses a point outside [position_, position_ + range_).
RECURSIVE addPointRejecting(_, _, _, _)
addPointRejecting(h, n, point, indeterminate) ==
    IF \/ point.x < h[n].position_.x \/ point.x >= h[n].position_.x + h[n].range_
       \/ point.y < h[n].position_.y \/ point.y >= h[n].position_.y + h[n].range_
       \/ point.z < h[n].position_.z \/ point.z >= h[n].position_.z + h[n].range_
    THEN h
    ELSE IF h[n].depth_ = 0
    THEN [h EXCEPT ![n].points_ = Append(@, point)]
    ELSE LET index == getChildIndex(h[n], point)
             h1 == IF ~h[n].is_available_[index]
                   THEN initChild(h, n, point, index, indeterminate)
                   ELSE h
         IN  addPointRejecting(h1, h1[n].children_[index], point, indeterminate)

\* addPoint that puts the point at the front of the leaf's buffer.
RECURSIVE addPointPrepend(_, _, _, _)
addPointPrepend(h, n, point, indeterminate) ==
    IF h[n].depth_ = 0
    THEN [h EXCEPT ![n].points_ = <<point>> \o @]
    ELSE LET index == getChildIndex(h[n], point)
             h1 == IF ~h[n].is_available_[index]
                   THEN initChild(h, n, point, index, indeterminate)
                   ELSE h
         IN  addPointPrepend(h1, h1[n].children_[index], point, indeterminate)

\* addPoint whose leaf step also refreshes the leaf's mesh.
RECURSIVE addPointInvalidating(_, _, _, _)
addPointInvalidating(h, n, point, indeterminate) ==
    IF h[n].depth_ = 0
    THEN [h EXCEPT ![n].points_ = Append(@, point),
                   ![n].reconstructor = ReconstructorReconstruct(
                        [@ EXCEPT !.points = Append(h[n].points_, point)])]
    ELSE LET index == getChildIndex(h[n], point)
             h1 == IF ~h[n].is_available_[index]
                   THEN initChild(h, n, point, index, indeterminate)
                   ELSE h
         IN  addPointInvalidating(h1, h1[n].children_[index], point, indeterminate)

\* ReconstructionOcTree::addPoint on node n; the heap after the call.
RECURSIVE addPoint(_, _, _, _)
addPoint(h, n, point, indeterminate) ==
    IF h[n].depth_ = 0
    THEN [h EXCEPT ![n].points_ = Append(@, point)]
    ELSE LET index == getChildIndex(h[n], point)
             h1 == IF ~h[n].is_available_[index]
                   THEN initChild(h, n, point, index, indeterminate)
                   ELSE h
         IN  addPoint(h1, h1[n].children_[index], point, indeterminate)

\* Sum of f over the available slots 0 .. i of node n.
RECURSIVE SumSlots(_, _, _, _)

\* ReconstructionOcTree::getSize
RECURSIVE getSize(_, _)
getSize(h, n) ==
    IF h[n].depth_ = 0
    THEN Len(h[n].points_)
    ELSE SumSlots(h, n, 7, "getSize")

\* ReconstructionOcTree::getClusterCount
RECURSIVE getClusterCount(_, _)

\* getClusterCount that counts the internal node itself as well.
getClusterCountNodes(h, n) ==
    IF h[n].depth_ # 0
    THEN 1 + SumSlots(h, n, 7, "getClusterCount")
    ELSE 1

\* getClusterCount that counts a leaf only once it holds a point.
getClusterCountNonEmpty(h, n) ==
    IF h[n].depth_ # 0
    THEN SumSlots(h, n, 7, "getClusterCount")
    ELSE IF h[n].points_ = <<>> THEN 0 ELSE 1

getClusterCount(h, n) ==
    IF h[n].depth_ # 0
    THEN SumSlots(h, n, 7, "getClusterCount")
    ELSE 1

\* The `for (i = 0; i < 8; ++i) if (is_available_[i]) size += ...` loops.
SumSlots(h, n, i, what) ==
    IF i < 0
    THEN 0
    ELSE SumSlots(h, n, i - 1, what)
         + ( IF h[n].is_available_[i]
             THEN IF what = "getSize"
                  THEN getSize(h, h[n].children_[i])
                  ELSE getClusterCount(h, h[n].children_[i])
             ELSE 0 )

\* getPoints that stops descending one level above the leaves.
RECURSIVE getPointsStopsEarly(_, _, _)
getPointsStopsEarly(h, n, location) ==
    LET index == getChildIndex(h[n], location)
    IN  IF h[n].depth_ <= 1 \/ ~h[n].is_available_[index]
        THEN h[n].points_
        ELSE getPointsStopsEarly(h, h[n].children_[index], location)

\* getPoints that falls back on the first available child when the slot
\* location routes to is absent.
RECURSIVE getPointsNearest(_, _, _)
getPointsNearest(h, n, location) ==
    LET index == getChildIndex(h[n], location)
        present == { j \in 0 .. 7 : h[n].is_available_[j] }
    IN  IF h[n].depth_ = 0 \/ present = {}
        THEN h[n].points_
        ELSE IF h[n].is_available_[index]
        THEN getPointsNearest(h, h[n].children_[index], location)
        ELSE getPointsNearest(
                 h, h[n].children_[CHOOSE j \in present : \A k \in present : j <= k],
                 location)

\* ReconstructionOcTree::getPoints
RECURSIVE getPoints(_, _, _)
getPoints(h, n, location) ==
    LET index == getChildIndex(h[n], location)
    IN  IF h[n].depth_ = 0 \/ ~h[n].is_available_[index]
        THEN h[n].points_
        ELSE getPoints(h, h[n].children_[index], location)

\* ReconstructionOcTree::reconstruct on node n; the heap after the call.
RECURSIVE reconstruct(_, _)
RECURSIVE reconstructSlots(_, _, _)
reconstruct(h, n) ==
    IF h[n].depth_ = 0
    THEN [h EXCEPT ![n].reconstructor =
              ReconstructorReconstruct([@ EXCEPT !.points = h[n].points_])]
    ELSE reconstructSlots(h, n, 0)

\* The loop of reconstruct from slot i on.
reconstructSlots(h, n, i) ==
    IF i > 7
    THEN h
    ELSE reconstructSlots(
             IF h[n].is_available_[i] THEN reconstruct(h, h[n].children_[i]) ELSE h,
             n, i + 1)

\* ReconstructionOcTree::getMesh
RECURSIVE getMesh(_, _)
RECURSIVE getMeshSlots(_, _, _)
getMesh(h, n) ==
    IF h[n].depth_ # 0
    THEN getMeshSlots(h, n, 0)
    ELSE ReconstructorGetMesh(h[n].reconstructor)

\* The loop of getMesh running from slot 7 down to slot i.
RECURSIVE getMeshSlotsDescending(_, _, _)
getMeshSlotsDescending(h, n, i) ==
    IF i > 7
    THEN <<>>
    ELSE getMeshSlotsDescending(h, n, i + 1)
         \o ( IF h[n].is_available_[i] THEN getMesh(h, h[n].children_[i]) ELSE <<>> )

\* The loop of getMesh from slot i on: mesh.insert(mesh.end(), childMesh...).
getMeshSlots(h, n, i) ==
    IF i > 7
    THEN <<>>
    ELSE ( IF h[n].is_available_[i] THEN getMesh(h, h[n].children_[i]) ELSE <<>> )
         \o getMeshSlots(h, n, i + 1)

(* ------------------------------ actions ------------------------------- *)

Ret(op, num, seq) == [op |-> op, num |-> num, seq |-> seq]

\* No addPoint call is in flight on another thread.
NoThreads == <<>>

\* No worker pool is running reconstruct().
NoFanOut == [phase |-> "none", before |-> <<>>, pc |-> <<>>]

Init ==
    /\ \E position \in RootPositions, range \in RootRanges, depth \in RootDepths,
          indeterminate \in IndeterminatePositions :
          /\ rootPosition = position
          /\ heap = << ReconstructionOcTree(position, range, depth, indeterminate) >>
    /\ inserted = <<>>
    /\ ret = Ret("new", 0, <<>>)
    /\ threads = NoThreads
    /\ fan = NoFanOut

\* root->addPoint(point)
AddPointCall(point) ==
    /\ \E indeterminate \in [0 .. heap[Root].depth_ - 1 -> IndeterminatePositions] :
          heap' = addPoint(heap, Root, point, indeterminate)
    /\ inserted' = Append(inserted, point)
    /\ ret' = Ret("addPoint", 0, <<>>)
    /\ UNCHANGED <<rootPosition, threads, fan>>

\* The ingestion collaborator: one addPoint call per point, any order.
AddPoint(point) ==
    /\ Len(inserted) < MaxPoints
    /\ AddPointCall(point)

\* root->reconstruct()
Reconstruct ==
    /\ heap' = reconstruct(heap, Root)
    /\ ret' = Ret("reconstruct", 0, <<>>)
    /\ UNCHANGED <<rootPosition, inserted, threads, fan>>

\* root->getSize()
GetSize ==
    /\ ret' = Ret("getSize", getSize(heap, Root), <<>>)
    /\ UNCHANGED <<heap, rootPosition, inserted, threads, fan>>

\* root->getClusterCount()
GetClusterCount ==
    /\ ret' = Ret("getClusterCount", getClusterCount(heap, Root), <<>>)
    /\ UNCHANGED <<heap, rootPosition, inserted, threads, fan>>

\* root->getPoints(location)
GetPoints(location) ==
    /\ ret' = Ret("getPoints", 0, getPoints(heap, Root, location))
    /\ UNCHANGED <<heap, rootPosition, inserted, threads, fan>>

\* getMesh() that first brings every leaf's mesh up to date.
GetMeshReconstructing ==
    /\ heap' = reconstruct(heap, Root)
    /\ ret' = Ret("getMesh", 0, getMesh(heap', Root))
    /\ UNCHANGED <<rootPosition, inserted, threads, fan>>

\* root->getMesh()
GetMesh ==
    /\ ret' = Ret("getMesh", 0, getMesh(heap, Root))
    /\ UNCHANGED <<heap, rootPosition, inserted, threads, fan>>

Next ==
    \/ \E point \in Points : AddPoint(point)
    \/ Reconstruct
    \/ GetSize
    \/ GetClusterCount
    \/ \E location \in Points : GetPoints(location)
    \/ GetMesh

Spec == Init /\ [][Next]_vars

(* --------------- the octant sweep: one point per octant --------------- *)

\* Position of point in OctantPoints.
Rank(point) == CHOOSE i \in 1 .. Len(OctantPoints) : OctantPoints[i] = point

\* The ingestion collaborator feeding the eight octant points in ascending
\* octant order, each at most once.
SweepAddPoint(point) ==
    /\ IF inserted = <<>> THEN TRUE
       ELSE Rank(inserted[Len(inserted)]) < Rank(point)
    /\ AddPointCall(point)

InitSweep ==
    /\ \E position \in RootPositions, range \in RootRanges, depth \in {1},
          indeterminate \in IndeterminatePositions :
          /\ rootPosition = position
          /\ heap = << ReconstructionOcTree(position, range, depth, indeterminate) >>
    /\ inserted = <<>>
    /\ ret = Ret("new", 0, <<>>)
    /\ threads = NoThreads
    /\ fan = NoFanOut

NextSweep ==
    \/ \E i \in 1 .. Len(OctantPoints) : SweepAddPoint(OctantPoints[i])
    \/ GetClusterCount

SpecSweep == InitSweep /\ [][NextSweep]_vars

(* ------------- addPoint step by step, on one or two threads ----------- *)

\* Most delegations a call is followed through.
MaxFrames == 4

\* Depths of the root when one call is followed level by level; the
\* constructor takes any int.
DescentDepths == -1 .. 2

\* A thread outside addPoint.  made holds the <<node, slot, child>> triples
\* of the children the thread constructed.
IdleThread ==
    [ pc |-> "idle", node |-> NoNode, point |-> Vec3(0, 0, 0), index |-> 0,
      delegations |-> 0, size |-> 0, made |-> {} ]

\* `children_[index] = child` done only while the slot holds no child yet.
initChildStoreIfUnset(h, n, location, index, indeterminate) ==
    LET child == ReconstructionOcTree(childPosition(h[n], location),
                                      h[n].halfRange_, h[n].depth_ - 1,
                                      indeterminate)
    IN  Append([h EXCEPT ![n].children_[index] =
                    IF @ = NoNode THEN Len(h) + 1 ELSE @],
               child)

\* initChild up to `children_[index] = new ReconstructionOcTree(...)`.
initChildStore(h, n, location, index, indeterminate) ==
    LET child == ReconstructionOcTree(childPosition(h[n], location),
                                      h[n].halfRange_, h[n].depth_ - 1,
                                      indeterminate)
    IN  Append([h EXCEPT ![n].children_[index] = Len(h) + 1], child)

\* initChild's `is_available_[index] = true`.
initChildMark(h, n, index) == [h EXCEPT ![n].is_available_[index] = TRUE]

\* Thread t calls root->addPoint(point).
ThreadCall(t, point) ==
    /\ threads[t].pc = "idle"
    /\ Len(inserted) < MaxPoints
    /\ threads' = [threads EXCEPT ![t] =
                      [@ EXCEPT !.pc = "enter", !.node = Root, !.point = point,
                                !.delegations = 0]]
    /\ inserted' = Append(inserted, point)
    /\ UNCHANGED <<heap, rootPosition, ret, fan>>

\* addPoint on entry: the depth_ test, getChildIndex and the
\* is_available_ test.
ThreadEnter(t) ==
    /\ threads[t].pc = "enter"
    /\ LET node == heap[threads[t].node]
           index == getChildIndex(node, threads[t].point)
       IN  threads' = [threads EXCEPT ![t] =
               IF node.depth_ = 0
               THEN [@ EXCEPT !.pc = "push"]
               ELSE [@ EXCEPT !.index = index,
                              !.pc = IF ~node.is_available_[index]
                                     THEN "init" ELSE "descend"]]
    /\ UNCHANGED <<heap, rootPosition, inserted, ret, fan>>

\* initChild: the child is constructed and stored in children_[index].
ThreadInitStore(t) ==
    /\ threads[t].pc = "init"
    /\ \E indeterminate \in IndeterminatePositions :
          heap' = initChildStore(heap, threads[t].node, threads[t].point,
                                 threads[t].index, indeterminate)
    /\ threads' = [threads EXCEPT ![t] =
                      [@ EXCEPT !.pc = "mark",
                                !.made = @ \cup { <<threads[t].node, threads[t].index,
                                                    Len(heap) + 1>> }]]
    /\ UNCHANGED <<rootPosition, inserted, ret, fan>>

\* initChild: is_available_[index] = true.
ThreadInitMark(t) ==
    /\ threads[t].pc = "mark"
    /\ heap' = initChildMark(heap, threads[t].node, threads[t].index)
    /\ threads' = [threads EXCEPT ![t] = [@ EXCEPT !.pc = "descend"]]
    /\ UNCHANGED <<rootPosition, inserted, ret, fan>>

\* children_[index]->addPoint(point): the slot is read and the call moves
\* into the child.
ThreadDescend(t) ==
    /\ threads[t].pc = "descend"
    /\ threads[t].delegations < MaxFrames
    /\ threads' = [threads EXCEPT ![t] =
                      [@ EXCEPT !.pc = "enter",
                                !.node = heap[threads[t].node].children_[threads[t].index],
                                !.delegations = @ + 1]]
    /\ UNCHANGED <<heap, rootPosition, inserted, ret, fan>>

\* points_.push_back(point): the end of the buffer is read ...
ThreadPushRead(t) ==
    /\ threads[t].pc = "push"
    /\ threads' = [threads EXCEPT ![t] =
                      [@ EXCEPT !.pc = "store",
                                !.size = Len(heap[threads[t].node].points_)]]
    /\ UNCHANGED <<heap, rootPosition, inserted, ret, fan>>

\* ... and the point is written there and the size set behind it.
ThreadPushStore(t) ==
    /\ threads[t].pc = "store"
    /\ heap' = [heap EXCEPT ![threads[t].node].points_ =
                    Append(SubSeq(@, 1, threads[t].size), threads[t].point)]
    /\ threads' = [threads EXCEPT ![t] = [@ EXCEPT !.pc = "done"]]
    /\ UNCHANGED <<rootPosition, inserted, ret, fan>>

\* addPoint returns to the caller.
ThreadReturn(t) ==
    /\ threads[t].pc = "done"
    /\ threads' = [threads EXCEPT ![t] = [@ EXCEPT !.pc = "idle"]]
    /\ UNCHANGED <<heap, rootPosition, inserted, ret, fan>>

\* One thread, a root of any depth.
InitDescent ==
    /\ \E position \in RootPositions, range \in RootRanges, depth \in DescentDepths,
          indeterminate \in IndeterminatePositions :
          /\ rootPosition = position
          /\ heap = << ReconstructionOcTree(position, range, depth, indeterminate) >>
    /\ inserted = <<>>
    /\ ret = Ret("new", 0, <<>>)
    /\ threads = << IdleThread >>
    /\ fan = NoFanOut

NextDescent ==
    \/ \E t \in DOMAIN threads : \E point \in Points : ThreadCall(t, point)
    \/ \E t \in DOMAIN threads : ThreadEnter(t)
    \/ \E t \in DOMAIN threads : ThreadInitStore(t)
    \/ \E t \in DOMAIN threads : ThreadInitMark(t)
    \/ \E t \in DOMAIN threads : ThreadDescend(t)
    \/ \E t \in DOMAIN threads : ThreadPushRead(t)
    \/ \E t \in DOMAIN threads : ThreadPushStore(t)
    \/ \E t \in DOMAIN threads : ThreadReturn(t)

SpecDescent == InitDescent /\ [][NextDescent]_vars

\* Two threads calling addPoint on one tree without a lock, one call each.
InitRace ==
    /\ \E position \in RootPositions, range \in RootRanges, depth \in {1, 2},
          indeterminate \in IndeterminatePositions :
          /\ rootPosition = position
          /\ heap = << ReconstructionOcTree(position, range, depth, indeterminate) >>
    /\ inserted = <<>>
    /\ ret = Ret("new", 0, <<>>)
    /\ threads = << IdleThread, IdleThread >>
    /\ fan = NoFanOut

NextRace ==
    \/ \E t \in DOMAIN threads : \E point \in Points : ThreadCall(t, point)
    \/ \E t \in DOMAIN threads : ThreadEnter(t)
    \/ \E t \in DOMAIN threads : ThreadInitStore(t)
    \/ \E t \in DOMAIN threads : ThreadInitMark(t)
    \/ \E t \in DOMAIN threads : ThreadDescend(t)
    \/ \E t \in DOMAIN threads : ThreadPushRead(t)
    \/ \E t \in DOMAIN threads : ThreadPushStore(t)

SpecRace == InitRace /\ [][NextRace]_vars

(* ---------- reconstruct() fanned out over the leaves, then joined ------ *)

\* The leaves reconstruct() reaches from node n: the depth_ == 0 nodes
\* behind available slots.
RECURSIVE reconstructLeaves(_, _)
reconstructLeaves(h, n) ==
    IF h[n].depth_ = 0
    THEN {n}
    ELSE UNION { reconstructLeaves(h, h[n].children_[i]) :
                    i \in { j \in 0 .. 7 : h[n].is_available_[j] } }

\* The copy going to one collaborator shared by all the leaves.
reconstructCopyShared(h, l) ==
    LET first == CHOOSE m \in 1 .. Len(h) :
                     /\ h[m].depth_ = 0
                     /\ \A k \in 1 .. m - 1 : h[k].depth_ # 0
    IN  [h EXCEPT ![first].reconstructor.points = h[l].points_]

\* The leaf step of reconstruct(): `reconstructor->points = points_` ...
reconstructCopy(h, l) == [h EXCEPT ![l].reconstructor.points = h[l].points_]

\* ... and `reconstructor->reconstruct()`.
reconstructRun(h, l) ==
    [h EXCEPT ![l].reconstructor = ReconstructorReconstruct(@)]

\* The tree is built, and reconstructed or not, before the leaf steps.
FanAddPoint(point) == fan.phase = "none" /\ AddPoint(point)

FanReconstruct == fan.phase = "none" /\ Reconstruct

\* collect after the barrier
FanGetMesh == fan.phase = "joined" /\ GetMesh

\* The worker pool is handed one leaf step per leaf of the tree.
StartFanOut ==
    /\ fan.phase = "none"
    /\ fan' = [ phase  |-> "fanout",
                before |-> heap,
                pc     |-> [l \in reconstructLeaves(heap, Root) |-> "copy"] ]
    /\ UNCHANGED <<heap, rootPosition, inserted, ret, threads>>

LeafCopy(l) ==
    /\ fan.phase = "fanout"
    /\ fan.pc[l] = "copy"
    /\ heap' = reconstructCopy(heap, l)
    /\ fan' = [fan EXCEPT !.pc[l] = "run"]
    /\ UNCHANGED <<rootPosition, inserted, ret, threads>>

LeafRun(l) ==
    /\ fan.phase = "fanout"
    /\ fan.pc[l] = "run"
    /\ heap' = reconstructRun(heap, l)
    /\ fan' = [fan EXCEPT !.pc[l] = "done"]
    /\ UNCHANGED <<rootPosition, inserted, ret, threads>>

\* The barrier: every leaf step has finished.
Join ==
    /\ fan.phase = "fanout"
    /\ \A l \in DOMAIN fan.pc : fan.pc[l] = "done"
    /\ fan' = [fan EXCEPT !.phase = "joined"]
    /\ ret' = Ret("reconstruct", 0, <<>>)
    /\ UNCHANGED <<heap, rootPosition, inserted, threads>>

NextFanOut ==
    \/ \E point \in Points : FanAddPoint(point)
    \/ FanReconstruct
    \/ FanGetMesh
    \/ StartFanOut
    \/ \E l \in DOMAIN fan.pc : LeafCopy(l)
    \/ \E l \in DOMAIN fan.pc : LeafRun(l)
    \/ Join

InitFanOut ==
    /\ \E position \in RootPositions, range \in RootRanges, depth \in {1},
          indeterminate \in IndeterminatePositions :
          /\ rootPosition = position
          /\ heap = << ReconstructionOcTree(position, range, depth, indeterminate) >>
    /\ inserted = <<>>
    /\ ret = Ret("new", 0, <<>>)
    /\ threads = NoThreads
    /\ fan = NoFanOut

SpecFanOut == InitFanOut /\ [][NextFanOut]_vars

(* ---------------------------- vocabulary ------------------------------ *)

Nodes == 1 .. Len(heap)

Leaves == { n \in Nodes : heap[n].depth_ = 0 }

Range(seq) == { seq[i] : i \in 1 .. Len(seq) }

Last(seq) == seq[Len(seq)]

\* point lies in the cube [origin, origin + range) on each axis.
InCube(point, origin, range) ==
    /\ origin.x <= point.x /\ point.x < origin.x + range
    /\ origin.y <= point.y /\ point.y < origin.y + range
    /\ origin.z <= point.z /\ point.z < origin.z + range

\* Every inserted point lies in the cube the root was constructed for.
InsertedInRootCube ==
    \A i \in 1 .. Len(inserted) : InCube(inserted[i], rootPosition, heap[Root].range_)

\* Every node's position_ reads as zero (the zero-initialising build).
AllPositionsZero == \A n \in Nodes : heap[n].position_ = Vec3(0, 0, 0)

\* Leaves that hold at least one point.
LeavesWithPoints == { n \in Leaves : heap[n].points_ # <<>> }

(* ------------------------------- claims ------------------------------- *)

\* C1: getSize() on the root equals the number of addPoint calls made, for
\* every root depth and every sequence of calls.
C1_SizeCountsInsertions == getSize(heap, Root) = Len(inserted)

C1_Witness ==
    /\ heap[Root].depth_ = 2
    /\ Len(inserted) = 3
    /\ Cardinality(LeavesWithPoints) = 2

\* C2: after addPoint(p), with no other insertion since, getPoints(p)
\* returns a sequence that contains p.
C2_RoundTrip ==
    inserted # <<>> => Last(inserted) \in Range(getPoints(heap, Root, Last(inserted)))

C2_Witness ==
    /\ heap[Root].depth_ = 2
    /\ Len(inserted) = 3
    /\ ret.op = "getPoints"
    /\ Last(inserted) \in Range(ret.seq)
    /\ Len(ret.seq) = 2

\* C3 as stated: whenever all inserted points lie within the root's cube,
\* getClusterCount() equals the number of leaves that received a point.
C3_Original ==
    InsertedInRootCube => getClusterCount(heap, Root) = Cardinality(LeavesWithPoints)

\* C3 amended: the same, for a root of depth > 0 or once a point was
\* inserted (a depth-0 root counts as one cluster while still empty).
C3_ClusterCountIsTouchedLeaves ==
    (InsertedInRootCube /\ (heap[Root].depth_ > 0 \/ inserted # <<>>))
        => getClusterCount(heap, Root) = Cardinality(LeavesWithPoints)

C3_Witness ==
    /\ InsertedInRootCube
    /\ heap[Root].depth_ = 2
    /\ Len(inserted) = 3
    /\ ret.op = "getClusterCount"
    /\ ret.num = 2

\* Slot index i selects the high half on the axis.
HighX(i) == i \div 4 = 1
HighY(i) == (i \div 2) % 2 = 1
HighZ(i) == i % 2 = 1

\* C4: at every internal node and for every point, the child origin that
\* initChild computes is the high half on an axis exactly when
\* getChildIndex selects the high half on that axis.
C4_RoutingAgreesWithChildOrigin ==
    \A n \in Nodes : heap[n].depth_ > 0 =>
        \A p \in Probes :
            LET node == heap[n]
                origin == childPosition(node, p)
                index == getChildIndex(node, p)
            IN  /\ (origin.x = node.position_.x + node.halfRange_) <=> HighX(index)
                /\ (origin.y = node.position_.y + node.halfRange_) <=> HighY(index)
                /\ (origin.z = node.position_.z + node.halfRange_) <=> HighZ(index)

\* The unit cells of the cube [origin, origin + range).
Cells(origin, range) ==
    { Vec3(a, b, c) : a \in origin.x .. origin.x + range - 1,
                      b \in origin.y .. origin.y + range - 1,
                      c \in origin.z .. origin.z + range - 1 }

\* The available children of node n whose region contains cell.
ChildrenCovering(n, cell) ==
    { i \in 0 .. 7 :
        /\ heap[n].is_available_[i]
        /\ InCube(cell, heap[heap[n].children_[i]].position_,
                        heap[heap[n].children_[i]].range_) }

\* C5: points routed to different children of a node have different octant
\* indices, and once all 8 children of a node are materialized their
\* regions tile the node's cube: every cell lies in exactly one child.
C5_ChildrenTileParent ==
    \A n \in Nodes : heap[n].depth_ > 0 =>
        /\ \A p, q \in Range(OctantPoints) :
              LET i == getChildIndex(heap[n], p)
                  j == getChildIndex(heap[n], q)
              IN  ( /\ heap[n].is_available_[i]
                    /\ heap[n].is_available_[j]
                    /\ heap[n].children_[i] # heap[n].children_[j] ) => i # j
        /\ (\A i \in 0 .. 7 : heap[n].is_available_[i]) =>
              \A cell \in Cells(heap[n].position_, heap[n].range_) :
                  Cardinality(ChildrenCovering(n, cell)) = 1

\* The nodes reachable from n through available slots, n included.
RECURSIVE Subtree(_, _)
Subtree(h, n) ==
    {n} \cup UNION { Subtree(h, h[n].children_[i]) :
                       i \in { j \in 0 .. 7 : h[n].is_available_[j] } }

\* C6: after any insertions of points inside the root's cube, every point
\* stored in a leaf lies within the region [position_, position_ + range_)
\* of that leaf and of every ancestor of that leaf.
C6_PointsInsideRegions ==
    InsertedInRootCube =>
        \A a \in Nodes : \A l \in Subtree(heap, a) \cap Leaves :
            \A p \in Range(heap[l].points_) :
                InCube(p, heap[a].position_, heap[a].range_)

\* Root (0,0,0), range 8, depth 2, after (1,1,1), (7,7,7), (1,1,7).
Scenario ==
    /\ rootPosition = Vec3(0, 0, 0)
    /\ heap[Root].range_ = 8
    /\ heap[Root].depth_ = 2
    /\ inserted = << Vec3(1, 1, 1), Vec3(7, 7, 7), Vec3(1, 1, 7) >>

\* C7 as stated: in the scenario getSize() = 3, getClusterCount() = 2,
\* getPoints((1,1,1)) = [(1,1,1)] and getPoints((7,7,7)) = [(7,7,7)].
C7_Original ==
    Scenario =>
        /\ getSize(heap, Root) = 3
        /\ getClusterCount(heap, Root) = 2
        /\ getPoints(heap, Root, Vec3(1, 1, 1)) = << Vec3(1, 1, 1) >>
        /\ getPoints(heap, Root, Vec3(7, 7, 7)) = << Vec3(7, 7, 7) >>

\* C7 amended: in the scenario getSize() = 3, getClusterCount() is between
\* 1 and 3 and getPoints(p) contains p; where every position_ reads as zero
\* the three points lie in three leaves under the first-level octants 0, 7
\* and 1, getClusterCount() = 3 and getPoints returns exactly [(1,1,1)]
\* and [(7,7,7)].
C7_ScenarioThreeClusters ==
    Scenario =>
        /\ getSize(heap, Root) = 3
        /\ getClusterCount(heap, Root) \in 1 .. 3
        /\ Vec3(1, 1, 1) \in Range(getPoints(heap, Root, Vec3(1, 1, 1)))
        /\ Vec3(7, 7, 7) \in Range(getPoints(heap, Root, Vec3(7, 7, 7)))
        /\ AllPositionsZero =>
              /\ getClusterCount(heap, Root) = 3
              /\ getPoints(heap, Root, Vec3(1, 1, 1)) = << Vec3(1, 1, 1) >>
              /\ getPoints(heap, Root, Vec3(7, 7, 7)) = << Vec3(7, 7, 7) >>
              /\ { i \in 0 .. 7 : heap[Root].is_available_[i] } = {0, 1, 7}
              /\ getChildIndex(heap[Root], Vec3(1, 1, 1)) = 0
              /\ getChildIndex(heap[Root], Vec3(1, 1, 7)) = 1

C7_Witness ==
    /\ Scenario
    /\ AllPositionsZero
    /\ ret.op = "getClusterCount"
    /\ ret.num = 3

\* C8: a getMesh() call changes no tree state, and a getMesh() call that
\* directly follows a getMesh() call returns the same sequence.
C8_GetMeshIdempotent ==
    [][ ret'.op = "getMesh" =>
          /\ heap' = heap
          /\ ret.op = "getMesh" => ret'.seq = ret.seq ]_vars

C8_Witness ==
    /\ ret.op = "getMesh"
    /\ ret.seq # <<>>
    /\ heap[Root].depth_ = 2
    /\ Cardinality(LeavesWithPoints) = 2

\* C9: a root of depth 0 is a single leaf: getClusterCount() = 1 before and
\* after every step, no child is materialized, and each addPoint raises
\* getSize() by exactly 1.
C9_DepthZeroSingleLeaf ==
    [][ heap[Root].depth_ = 0 =>
          /\ getClusterCount(heap, Root) = 1
          /\ getClusterCount(heap', Root) = 1
          /\ Len(heap') = 1
          /\ \A i \in 0 .. 7 : ~heap'[Root].is_available_[i]
          /\ inserted' # inserted =>
                getSize(heap', Root) = getSize(heap, Root) + 1 ]_vars

C9_Witness ==
    /\ heap[Root].depth_ = 0
    /\ Len(inserted) = 3
    /\ ret.op = "getSize"
    /\ ret.num = 3

\* C10: a depth-1 root that never received a point has getSize() = 0,
\* getClusterCount() = 0 and an empty getMesh(), reconstruct() or not.
C10_EmptyDepthOneRoot ==
    (heap[Root].depth_ = 1 /\ inserted = <<>>) =>
        /\ getSize(heap, Root) = 0
        /\ getClusterCount(heap, Root) = 0
        /\ getMesh(heap, Root) = <<>>

C10_Witness ==
    /\ heap[Root].depth_ = 1
    /\ inserted = <<>>
    /\ ret.op = "reconstruct"

\* The leaves reachable from the root through available slots.
ReachableLeaves == Subtree(heap, Root) \cap Leaves

IsPrefix(a, b) == Len(a) <= Len(b) /\ SubSeq(b, 1, Len(a)) = a

\* C11: a slot that is available stays available over every step and keeps
\* referring to the same child, whose position_, range_, halfRange_ and
\* depth_ do not change.
C11_SlotsNeverChange ==
    [][ heap' # heap =>
          \A n \in Nodes : \A i \in 0 .. 7 :
              heap[n].is_available_[i] =>
                  \A c \in { heap[n].children_[i] } :
                      /\ heap'[n].is_available_[i]
                      /\ heap'[n].children_[i] = c
                      /\ heap'[c].position_ = heap[c].position_
                      /\ heap'[c].range_ = heap[c].range_
                      /\ heap'[c].halfRange_ = heap[c].halfRange_
                      /\ heap'[c].depth_ = heap[c].depth_ ]_vars

C11_Witness ==
    /\ heap[Root].depth_ = 2
    /\ Len(inserted) = 3
    /\ Len(heap) = 3
    /\ ret.op = "getMesh"
    /\ ret.seq # <<>>

\* C13: an addPoint leaves what getMesh() returns unchanged; every leaf's
\* collaborator holds the points the leaf had at its last reconstruct() (a
\* prefix of its current points) and the mesh made of them; right after
\* reconstruct() every reachable leaf's collaborator holds the leaf's
\* current points.
C13_MeshStaleUntilReconstruct ==
    /\ [](\A l \in Subtree(heap, Root) : heap[l].depth_ = 0 =>
              /\ IsPrefix(heap[l].reconstructor.points, heap[l].points_)
              /\ heap[l].reconstructor.mesh = MeshOf(heap[l].reconstructor.points)
              /\ ret.op = "reconstruct" =>
                    /\ heap[l].reconstructor.points = heap[l].points_
                    /\ heap[l].reconstructor.mesh = MeshOf(heap[l].points_))
    /\ [][ inserted' # inserted => getMesh(heap', Root) = getMesh(heap, Root) ]_vars

C13_Witness ==
    /\ ret.op = "getMesh"
    /\ ret.seq # <<>>
    /\ \E l \in ReachableLeaves :
          /\ heap[l].reconstructor.mesh # <<>>
          /\ Len(heap[l].points_) > Len(heap[l].reconstructor.points)
    /\ \E l \in ReachableLeaves :
          /\ heap[l].points_ # <<>>
          /\ heap[l].reconstructor.mesh = <<>>

\* The leaves below n, each paired with the slot indices on the way from n
\* to it, read as a base-8 number that starts at key.
RECURSIVE KeyedLeaves(_, _, _)
KeyedLeaves(h, n, key) ==
    IF h[n].depth_ = 0
    THEN { <<key, n>> }
    ELSE UNION { KeyedLeaves(h, h[n].children_[i], key * 8 + i) :
                   i \in { j \in 0 .. 7 : h[n].is_available_[j] } }

\* Total length of the meshes of the keyed leaves in S.
RECURSIVE MeshLen(_)
MeshLen(S) ==
    IF S = {} THEN 0
    ELSE LET e == CHOOSE k \in S : TRUE
         IN  Len(heap[e[2]].reconstructor.mesh) + MeshLen(S \ {e})

\* C14: getMesh() of an internal node is as long as the meshes of the leaves
\* below it together, and each such leaf's mesh stands in it as one block,
\* after the meshes of exactly the leaves with smaller slot indices, whatever
\* the order in which the nodes were created.
C14_MeshInSlotOrder ==
    \A n \in Subtree(heap, Root) : heap[n].depth_ > 0 =>
        LET below == KeyedLeaves(heap, n, 0)
            out == getMesh(heap, n)
        IN  /\ Len(out) = MeshLen(below)
            /\ \A e \in below :
                  LET off == MeshLen({ k \in below : k[1] < e[1] })
                  IN  SubSeq(out, off + 1, off + Len(heap[e[2]].reconstructor.mesh))
                         = heap[e[2]].reconstructor.mesh

\* Two leaves with a mesh, the one created later in the smaller slot.
C14_Witness ==
    /\ heap[Root].depth_ = 2
    /\ ret.op = "getMesh"
    /\ \E e1, e2 \in KeyedLeaves(heap, Root, 0) :
          /\ e1[2] < e2[2]
          /\ e1[1] > e2[1]
          /\ heap[e1[2]].reconstructor.mesh # <<>>
          /\ heap[e2[2]].reconstructor.mesh # <<>>
          /\ heap[e1[2]].reconstructor.mesh # heap[e2[2]].reconstructor.mesh

\* location's route from node n ends at an internal node whose slot for
\* location is absent.
RECURSIVE RouteAbsent(_, _, _)
RouteAbsent(h, n, location) ==
    /\ h[n].depth_ > 0
    /\ IF h[n].is_available_[getChildIndex(h[n], location)]
       THEN RouteAbsent(h, h[n].children_[getChildIndex(h[n], location)], location)
       ELSE TRUE

\* C15: in every tree getPoints(location) is the empty sequence for every
\* location whose route ends at an absent slot, and a getPoints call returns
\* that value and changes nothing in the tree.
C15_AbsentSlotGivesEmpty ==
    /\ [](\A location \in Probes :
              RouteAbsent(heap, Root, location)
                  => getPoints(heap, Root, location) = <<>>)
    /\ [][ ret'.op = "getPoints" =>
              /\ heap' = heap
              /\ \E location \in Points :
                    ret'.seq = getPoints(heap, Root, location) ]_vars

\* The root's slot is there, the slot one level down is not, points are
\* stored elsewhere, and getPoints returned nothing.
C15_Witness ==
    /\ heap[Root].depth_ = 2
    /\ Len(inserted) = 3
    /\ ret.op = "getPoints"
    /\ ret.seq = <<>>
    /\ \E location \in Points :
          /\ RouteAbsent(heap, Root, location)
          /\ heap[Root].is_available_[getChildIndex(heap[Root], location)]

\* points_ of node l before the step, empty for a node the step creates.
OldPoints(l) == IF l <= Len(heap) THEN heap[l].points_ ELSE <<>>

\* C16: getChildIndex is in 0..7 at every internal node for every point,
\* getSize() is the number of addPoint calls made, and every addPoint, also
\* of a point outside the root's cube, is one more call and appends the
\* point to exactly one leaf.
C16_EveryPointAccepted ==
    /\ [](/\ \A n \in Nodes :
                heap[n].depth_ > 0 =>
                    \A p \in Probes : getChildIndex(heap[n], p) \in 0 .. 7
          /\ getSize(heap, Root) = Len(inserted))
    /\ [][ inserted' # inserted =>
              /\ Len(inserted') = Len(inserted) + 1
              /\ \A changed \in { { l \in 1 .. Len(heap') :
                                      heap'[l].points_ # OldPoints(l) } } :
                    /\ Cardinality(changed) = 1
                    /\ \A l \in changed :
                          /\ heap'[l].depth_ = 0
                          /\ heap'[l].points_ = Append(OldPoints(l), Last(inserted'))
          ]_vars

C16_Witness ==
    /\ heap[Root].depth_ = 2
    /\ Len(inserted) = 3
    /\ Last(inserted) = Vec3(9, 9, 9)
    /\ ~InCube(Last(inserted), rootPosition, heap[Root].range_)
    /\ ret.op = "addPoint"
    /\ getSize(heap, Root) = 3

\* C18: an available child has its parent's depth minus 1; only depth-0
\* nodes hold points or a collaborator; only nodes of depth > 0 have an
\* available child.
C18_DepthDecidesRole ==
    \A n \in Nodes :
        /\ \A i \in 0 .. 7 :
              heap[n].is_available_[i] =>
                  heap[heap[n].children_[i]].depth_ = heap[n].depth_ - 1
        /\ (heap[n].points_ # <<>> \/ heap[n].reconstructor.allocated)
              => heap[n].depth_ = 0
        /\ (\E i \in 0 .. 7 : heap[n].is_available_[i]) => heap[n].depth_ > 0

C18_Witness ==
    /\ heap[Root].depth_ = 2
    /\ Len(heap) = 7
    /\ ret.op = "reconstruct"

\* The nodes addPoint(p) passes from node n on.
RECURSIVE RouteNodes(_, _, _)
RouteNodes(h, n, p) ==
    {n} \cup ( IF h[n].depth_ > 0 /\ h[n].is_available_[getChildIndex(h[n], p)]
               THEN RouteNodes(h, h[n].children_[getChildIndex(h[n], p)], p)
               ELSE {} )

\* C19: addPoint(p) appends p at the end of the buffer of the leaf p routes
\* to, creates exactly the nodes that were missing on p's route, and leaves
\* every other node, every other buffer and every collaborator as it was.
C19_AddPointFrame ==
    [][ inserted' # inserted =>
          \A p \in { Last(inserted') } :
          \A route \in { RouteNodes(heap', Root, p) } :
          /\ Cardinality({ l \in route : heap'[l].depth_ = 0 }) = 1
          /\ \A target \in { l \in route : heap'[l].depth_ = 0 } :
              /\ heap'[target].points_ = Append(OldPoints(target), p)
              /\ \A n \in Nodes :
                    /\ n # target => heap'[n].points_ = heap[n].points_
                    /\ heap'[n].reconstructor = heap[n].reconstructor
                    /\ n \notin route => heap'[n] = heap[n]
              /\ \A n \in Len(heap) + 1 .. Len(heap') :
                    /\ n \in route
                    /\ n # target => heap'[n].points_ = <<>>
                    /\ heap'[n].reconstructor.mesh = <<>>
              /\ Len(heap') - Len(heap)
                    = Cardinality(route) - Cardinality(RouteNodes(heap, Root, p))
      ]_vars

\* The last point went behind a different one in its leaf while another
\* leaf keeps its points and its mesh.
C19_Witness ==
    /\ heap[Root].depth_ = 2
    /\ ret.op = "addPoint"
    /\ \E l1, l2 \in ReachableLeaves :
          /\ l1 # l2
          /\ Len(heap[l1].points_) = 2
          /\ heap[l1].points_[1] # heap[l1].points_[2]
          /\ heap[l1].points_[2] = Last(inserted)
          /\ heap[l2].reconstructor.mesh # <<>>

\* C12: when two threads have each constructed a child for the same slot of
\* the same node, the slot refers to the child constructed last and the
\* child constructed first cannot be reached from the root.
C12_RaceLeaksChild ==
    \A t1, t2 \in DOMAIN threads :
        \A e1 \in threads[t1].made : \A e2 \in threads[t2].made :
            (t1 # t2 /\ e1[1] = e2[1] /\ e1[2] = e2[2] /\ e1[3] < e2[3]) =>
                /\ heap[e1[1]].children_[e1[2]] = e2[3]
                /\ e1[3] \notin Subtree(heap, Root)
                /\ e2[3] \in 1 .. Len(heap)

\* Both calls returned, two children were made for one slot, and the point
\* put under the overwritten child is gone from the tree.
C12_Witness ==
    /\ \A t \in DOMAIN threads : threads[t].pc = "done"
    /\ \E e1 \in threads[1].made : \E e2 \in threads[2].made :
          e1[1] = e2[1] /\ e1[2] = e2[2] /\ e1[3] # e2[3]
    /\ Len(inserted) = 2
    /\ getSize(heap, Root) = 1
    /\ Cardinality(Nodes \ Subtree(heap, Root)) >= 1

\* C20: an addPoint call on a root of any depth ends at a leaf after exactly
\* depth delegations and never makes more delegations than the root's depth.
C20_RecursionBoundedByDepth ==
    \A t \in DOMAIN threads :
        /\ threads[t].delegations > 0 => threads[t].delegations <= heap[Root].depth_
        /\ threads[t].pc = "done" =>
              /\ threads[t].delegations = heap[Root].depth_
              /\ heap[threads[t].node].depth_ = 0

\* C17: while the leaf steps of reconstruct() run on distinct leaves in any
\* interleaving, each step changes nothing but the collaborator of its own
\* leaf, and once all have finished the tree, and so getMesh() on the root,
\* is what one sequential reconstruct() of the tree before the steps gives.
C17_FanOutEqualsSequential ==
    [][ fan.phase = "fanout" =>
          /\ fan'.phase = "joined" =>
                /\ heap' = reconstruct(fan.before, Root)
                /\ getMesh(heap', Root)
                      = getMesh(reconstruct(fan.before, Root), Root)
          /\ \A l \in DOMAIN fan.pc : fan'.pc[l] # fan.pc[l] =>
                /\ Len(heap') = Len(heap)
                /\ \A n \in 1 .. Len(heap) :
                      /\ n # l => heap'[n] = heap[n]
                      /\ [heap'[n] EXCEPT !.reconstructor = heap[n].reconstructor]
                            = heap[n]
      ]_vars

\* Three leaves were reconstructed by interleaved steps, the barrier was
\* passed and getMesh() returned a mesh the tree did not give before.
C17_Witness ==
    /\ fan.phase = "joined"
    /\ Cardinality(DOMAIN fan.pc) = 3
    /\ ret.op = "getMesh"
    /\ ret.seq = getMesh(heap, Root)
    /\ Len(ret.seq) = 3
    /\ getMesh(fan.before, Root) # ret.seq

====
